---- MODULE Spec2Model ----
(***************************************************************************)
(* Model of the ingestion-and-query core of obsidian-index.                *)
(*                                                                         *)
(* Two generations of the same loop live in the sources and both are       *)
(* modelled; the variable mode says which one runs:                        *)
(*   "indexer"  index/indexer.py : Indexer.run_ingestor on a deque, gated  *)
(*              by the threading.Condition wait_cv.                        *)
(*   "worker"   index/worker.py  : Worker.default_work on a               *)
(*              multiprocessing.Queue, scheduled by BaseWorker.            *)
(* BaseWorker / BaseController (obsidian_index.background_worker) are not  *)
(* in the sources; their loop is modelled from spec.md 4.4, 4.5.           *)
(***************************************************************************)
EXTENDS Integers, Sequences, FiniteSets, Bags, TLC

\* ------------------------------------------------------------- bounds
MaxFsOps == 1          \* filesystem operations (write/create/delete/move) in a run
IngestBatchSize == 2   \* ingest_batch_size of the run
MaxRequests == 1       \* search requests submitted in a run
MaxPathLen == 2        \* components of a vault root or database path

\* Two note paths, a.md (1) and b.md (2), in the first of two configured
\* vaults; the second vault holds no note.
Paths == {1, 2}
Vaults == {1, 2}
VaultOf(p) == 1

\* Two more objects under the first vault's root that events can be about:
\* a subdirectory (attachments/) and a regular file that is no note
\* (todo.txt).
SubDir == 3
TextFile == 4
Others == {SubDir, TextFile}

\* wait_cv / work_available is free or held by the loop thread; a watcher
\* holds it only within one step.
NoOwner == "free"
Consumer == "loop"

VARIABLES
    mode,          \* "indexer" | "worker"
    watch,         \* Indexer(watch=...) / Worker(watch_directories=...)
    enqueue_all,   \* Worker(enqueue_all=...)
    root_canonical,\* the configured vault roots are their own resolved form
    fs,            \* path -> [exists, mtime, content]
    clock,         \* number of filesystem operations so far; orders the writes
    events,        \* vault -> pending watchdog events of that vault's Observer
    wpc,           \* vault -> position of the Observer thread's handler
    ingest_queue,  \* the deque of the Indexer; the pipe of the Worker's multiprocessing.Queue
    mpbuf,         \* multiprocessing.Queue._buffer: put but not yet fed to the pipe
    lock,          \* owner of wait_cv / work_available
    cpc,           \* position of the loop thread
    batch,         \* batch being collected / ingested
    texts,         \* texts read so far in _do_ingest_paths
    embs,          \* result of encode_documents
    idx,           \* index of the store loop
    store,         \* Database: path -> [present, mtime, emb]
    request,       \* pending-request slot: "none" | "pending" | "answered" | "failed"
    shutdown,      \* shutdown signalled by stop()
    ctl,           \* controller: "running" | "joining" | "stopped"
    \* ---- history (ghost) variables
    enq,           \* accepted enqueues, in order
    handed,        \* items removed from the queue by the consumer, in order
    upserts,       \* path -> number of store_note calls
    nreq,          \* requests submitted so far
    failed,        \* some batch raised
    sinceSubmit,   \* ingest calls completed since the pending request was submitted
    lastTouch,     \* path -> clock of the last filesystem operation on the path
    lastMoveOnto,  \* path -> clock of the last move that replaced the path
    lastModify,    \* path -> clock of the last write in place that a watcher reported
    prevReadAt,    \* path -> lastTouch of the path when the text of its last upsert was read
    response,      \* paths returned by the last serviced search
    call,          \* outcome of the last tool call handled by the MCP server
    launch         \* run_background_indexer: the parent's call, the argv, the child

vars == <<mode, watch, enqueue_all, root_canonical, fs, clock, events, wpc, ingest_queue, mpbuf, lock, cpc,
          batch, texts, embs, idx, store, request, shutdown, ctl,
          enq, handed, upserts, nreq, failed, sinceSubmit, lastTouch, lastMoveOnto,
          lastModify, prevReadAt, response, call, launch>>

fsVars == <<fs, clock, events, lastTouch, lastMoveOnto, lastModify>>
ingestVars == <<batch, texts, embs, idx>>
ctlVars == <<request, shutdown, ctl, nreq, response>>
cfgVars == <<mode, watch, enqueue_all, root_canonical>>
srvVars == <<call, launch>>

\* ------------------------------------------------------------ helpers
\* A file's content is identified by the time it was written; a write at
\* filesystem step c is stamped InitialTime + c. The notes present at the
\* start were written earlier, a.md before b.md.
Absent == [exists |-> FALSE, mtime |-> 0, content |-> 0]
Original(p) == [exists |-> TRUE, mtime |-> p, content |-> p]
Stamp(c) == Cardinality(Paths) + c
NoRec == [present |-> FALSE, mtime |-> 0, emb |-> <<>>]

\* Encoder.encode_documents on one text: deterministic, tags the content.
Encode(t) == <<"emb", t>>

\* A queued item is a path as written: path i as found under the
\* configured root (root / relative path), or -i, its canonical absolute
\* form where that is another string (a root given relative or through a
\* symlink). Both name the same file.
FileOf(item) == IF item < 0 THEN -item ELSE item

\* path.resolve()
Resolve(p) == IF root_canonical THEN p ELSE -p

\* path.relative_to(self.vaults[vault_name]) is lexical: defined for a
\* path that starts with the configured root, ValueError otherwise.
UnderRoot(item) == item > 0

\* Path.is_file()
IsFile(p) == IF p \in Paths THEN fs[p].exists ELSE p = TextFile

\* path.suffix == ".md"
IsNote(p) == p \in Paths

RECURSIVE Count(_, _)
Count(x, s) == IF s = <<>> THEN 0
               ELSE (IF Head(s) = x THEN 1 ELSE 0) + Count(x, Tail(s))

RECURSIVE SeqOfSet(_)
SeqOfSet(S) == IF S = {} THEN <<>>
               ELSE LET m == CHOOSE x \in S : \A y \in S : x <= y
                    IN <<m>> \o SeqOfSet(S \ {m})

\* vault_path.rglob("*.md"): the notes that exist under the vault's root.
Rglob(v) == SeqOfSet({p \in Paths : VaultOf(p) = v /\ fs[p].exists /\ IsNote(p)})

RECURSIVE ScanFrom(_)
ScanFrom(v) == IF v \notin Vaults THEN <<>> ELSE Rglob(v) \o ScanFrom(v + 1)

\* Indexer.find_all_note_paths / Worker.enqueue_all_vaults: vaults in order.
find_all_note_paths == ScanFrom(1)

\* Database.num_notes()
num_notes == Cardinality({p \in Paths : store[p].present})

\* Python values of a tool call: None, and a dict as a set of <<key, value>>.
PyNone == "<None>"
ArgNone == [none |-> TRUE, items |-> {}]
Dict(d) == [none |-> FALSE, items |-> d]

\* "not x" for None, an empty str and an empty dict
Falsy(x) == x = PyNone \/ x = ""
FalsyArgs(a) == a.none \/ a.items = {}

\* dict.get(key): the value, None for a missing key
DictGet(a, k) == IF \E kv \in a.items : kv[1] = k
                 THEN (CHOOSE kv \in a.items : kv[1] = k)[2]
                 ELSE PyNone

\* No tool call handled yet.
NoCall == [outcome |-> "none", searched |-> FALSE, result |-> {}, afterError |-> FALSE]

\* run_background_indexer not called yet.
NoLaunch == [vaults |-> <<>>, database |-> [path |-> <<>>, is_dir |-> FALSE],
             parent |-> "none", argv |-> <<>>, returned |-> "",
             child |-> [status |-> "none", vaults |-> {}, database |-> <<>>, watch |-> FALSE]]

IsPrefix(s, t) == Len(s) <= Len(t) /\ SubSeq(t, 1, Len(s)) = s

\* Condition.notify_all(): a loop thread blocked in wait_for re-checks.
Notified(pc) == IF pc = "waiting" THEN "woken"
                ELSE IF pc = "wwait" THEN "wcheck" ELSE pc

IngestPcs == {"read", "encode", "store"}

\* -------------------------------------------------------------- Init
InitCfg(modes, canonical) ==
    /\ mode \in modes
    /\ watch \in BOOLEAN
    /\ root_canonical \in canonical
    /\ enqueue_all \in (IF mode = "worker" THEN BOOLEAN ELSE {FALSE})
    /\ fs \in {f \in [Paths -> {Absent} \cup {Original(p) : p \in Paths}] :
                    \A p \in Paths : f[p] \in {Absent, Original(p)}}
    /\ clock = 0
    /\ events = [v \in Vaults |-> <<>>]
    /\ wpc = [v \in Vaults |-> "idle"]
    /\ ingest_queue = <<>>
    /\ mpbuf = <<>>
    /\ lock = NoOwner
    /\ cpc = "start"
    /\ batch = <<>>
    /\ texts = <<>>
    /\ embs = <<>>
    /\ idx = 0
    /\ store \in {[p \in Paths |-> NoRec],
                  [p \in Paths |-> IF fs[p].exists
                                   THEN [present |-> TRUE, mtime |-> fs[p].mtime,
                                         emb |-> Encode(fs[p].content)]
                                   ELSE NoRec]}
    /\ request = "none"
    /\ shutdown = FALSE
    /\ ctl = "running"
    /\ enq = <<>>
    /\ handed = <<>>
    /\ upserts = [p \in Paths |-> 0]
    /\ nreq = 0
    /\ failed = FALSE
    /\ sinceSubmit = 0
    /\ lastTouch = [p \in Paths |-> 0]
    /\ lastMoveOnto = [p \in Paths |-> 0]
    /\ lastModify = [p \in Paths |-> 0]
    /\ prevReadAt = [p \in Paths |-> 0]
    /\ response = {}
    /\ call = NoCall
    /\ launch = NoLaunch

\* Vault roots given in canonical absolute form.
InitOf(modes) == InitCfg(modes, {TRUE})

\* ------------------------------------------------- filesystem (environment)
\* Watchers deliver events once started (watch set, construction done) and
\* until the controller has stopped them.
Watching == watch /\ cpc # "start" /\ ctl # "stopped"

Deliver(v, e) == IF Watching THEN [events EXCEPT ![v] = Append(@, e)] ELSE events

Event(k, p) == [kind |-> k, path |-> p, is_directory |-> p = SubDir]

\* A file is written in place: new content, new mtime.
FsWrite(p) ==
    /\ clock < MaxFsOps
    /\ fs[p].exists
    /\ clock' = clock + 1
    /\ fs' = [fs EXCEPT ![p] = [exists |-> TRUE, mtime |-> Stamp(clock + 1), content |-> Stamp(clock + 1)]]
    /\ events' = Deliver(VaultOf(p), Event("modified", p))
    /\ lastTouch' = [lastTouch EXCEPT ![p] = Stamp(clock + 1)]
    /\ lastModify' = IF Watching THEN [lastModify EXCEPT ![p] = Stamp(clock + 1)] ELSE lastModify
    /\ UNCHANGED lastMoveOnto

FsCreate(p) ==
    /\ clock < MaxFsOps
    /\ ~fs[p].exists
    /\ clock' = clock + 1
    /\ fs' = [fs EXCEPT ![p] = [exists |-> TRUE, mtime |-> Stamp(clock + 1), content |-> Stamp(clock + 1)]]
    /\ events' = Deliver(VaultOf(p), Event("created", p))
    /\ lastTouch' = [lastTouch EXCEPT ![p] = Stamp(clock + 1)]
    /\ UNCHANGED <<lastMoveOnto, lastModify>>

FsDelete(p) ==
    /\ clock < MaxFsOps
    /\ fs[p].exists
    /\ clock' = clock + 1
    /\ fs' = [fs EXCEPT ![p] = Absent]
    /\ events' = Deliver(VaultOf(p), Event("deleted", p))
    /\ lastTouch' = [lastTouch EXCEPT ![p] = Stamp(clock + 1)]
    /\ UNCHANGED <<lastMoveOnto, lastModify>>

\* rename(2): the file keeps its content and its mtime under the new name,
\* replacing whatever was there. Inside one watched root the Observer
\* reports a move of src_path; across roots a delete and a create.
FsMove(p, q) ==
    /\ clock < MaxFsOps
    /\ p # q
    /\ fs[p].exists
    /\ clock' = clock + 1
    /\ fs' = [fs EXCEPT ![q] = fs[p], ![p] = Absent]
    /\ events' = IF ~Watching THEN events
                 ELSE IF VaultOf(p) = VaultOf(q)
                      THEN [events EXCEPT ![VaultOf(p)] = Append(@, Event("moved", p))]
                      ELSE [events EXCEPT ![VaultOf(p)] = Append(@, Event("deleted", p)),
                                          ![VaultOf(q)] = Append(@, Event("created", q))]
    /\ lastTouch' = [lastTouch EXCEPT ![p] = Stamp(clock + 1), ![q] = Stamp(clock + 1)]
    /\ lastMoveOnto' = [lastMoveOnto EXCEPT ![q] = Stamp(clock + 1)]
    /\ UNCHANGED lastModify

\* The subdirectory or the text file is created or changed: an event, no
\* change of a note.
FsOther(k, o) ==
    /\ clock < MaxFsOps
    /\ clock' = clock + 1
    /\ events' = Deliver(VaultOf(o), Event(k, o))
    /\ UNCHANGED <<fs, lastTouch, lastMoveOnto, lastModify>>

\* Filesystem operations are followed while the program runs: until
\* run_ingestor has returned or raised, until stop() is called on the worker.
FsStep ==
    /\ cpc \notin {"done", "crashed"}
    /\ ctl = "running"
    /\ \/ \E p \in Paths : FsWrite(p)
       \/ \E p \in Paths : FsCreate(p)
       \/ \E p \in Paths : FsDelete(p)
       \/ \E p, q \in Paths : FsMove(p, q)
       \/ \E k \in {"created", "modified"}, o \in Others : FsOther(k, o)
    /\ UNCHANGED <<cfgVars, srvVars, wpc, ingest_queue, mpbuf, lock, cpc, ingestVars, store, ctlVars,
                   enq, handed, upserts, failed, sinceSubmit, prevReadAt>>

\* ------------------------------------------------------------ watchers
\* Mutant: an enqueue that coalesces an item already waiting in the queue.
QueueAppendDedup(q, item) ==
    IF \E i \in 1..Len(q) : q[i] = item THEN q ELSE Append(q, item)

\* deque.append / Queue.put of one item.
QueueAppend(q, item) == Append(q, item)

\* Mutant: a filter that takes any regular file, whatever its suffix.
AcceptsAnySuffix(e) == ~e.is_directory /\ IsFile(e.path)

\* The filter of on_created / on_modified: not a directory event, a regular
\* file, suffix .md.
Accepts(e) == ~e.is_directory /\ IsFile(e.path) /\ IsNote(e.path)

\* Mutant: the append without the notify_all that follows it.
IndexerEnqueueNoNotify(v, p) ==
    /\ ingest_queue' = QueueAppend(ingest_queue, p)
    /\ enq' = Append(enq, p)
    /\ UNCHANGED <<mpbuf, cpc, lock, wpc>>

\* Indexer.enqueue_path_for_ingestion up to the append: the notify under
\* wait_cv is the handler's next step (NotifyStep).
IndexerEnqueue(v, p) ==
    /\ ingest_queue' = QueueAppend(ingest_queue, p)
    /\ enq' = Append(enq, p)
    /\ wpc' = [wpc EXCEPT ![v] = "notify"]
    /\ UNCHANGED <<mpbuf, cpc, lock>>

\* Worker.enqueue_path_for_ingestion: put and notify_all under work_available.
WorkerEnqueue(v, p) ==
    /\ lock = NoOwner
    /\ mpbuf' = QueueAppend(mpbuf, p)
    /\ enq' = Append(enq, p)
    /\ cpc' = Notified(cpc)
    /\ UNCHANGED <<ingest_queue, wpc, lock>>

enqueue_path_for_ingestion(v, p) ==
    IF mode = "indexer" THEN IndexerEnqueue(v, p) ELSE WorkerEnqueue(v, p)

HandlerReady(v, k) ==
    /\ ctl # "stopped"
    /\ cpc # "crashed"
    /\ wpc[v] = "idle"
    /\ events[v] # <<>>
    /\ Head(events[v]).kind = k

HandlerFrame ==
    UNCHANGED <<cfgVars, srvVars, fs, clock, lastTouch, lastMoveOnto, lastModify, ingestVars, store, ctlVars,
                handed, upserts, failed, sinceSubmit, prevReadAt>>

\* Mutant: a modify handler that ingests the note itself.
on_modified_ingests(v) ==
    /\ HandlerReady(v, "modified")
    /\ events' = [events EXCEPT ![v] = Tail(@)]
    /\ LET p == Head(events[v]).path
       IN IF Accepts(Head(events[v]))
          THEN /\ store' = [store EXCEPT ![p] = [present |-> TRUE, mtime |-> fs[p].mtime,
                                                 emb |-> Encode(fs[p].content)]]
               /\ upserts' = [upserts EXCEPT ![p] = @ + 1]
          ELSE UNCHANGED <<store, upserts>>
    /\ UNCHANGED <<cfgVars, srvVars, fs, clock, lastTouch, lastMoveOnto, lastModify, ingestVars, ctlVars,
                   handed, failed, sinceSubmit, prevReadAt, ingest_queue, mpbuf, enq, wpc,
                   cpc, lock>>

on_created(v) ==
    /\ HandlerReady(v, "created")
    /\ events' = [events EXCEPT ![v] = Tail(@)]
    /\ IF Accepts(Head(events[v]))
       THEN enqueue_path_for_ingestion(v, Resolve(Head(events[v]).path))
       ELSE UNCHANGED <<ingest_queue, mpbuf, enq, wpc, cpc, lock>>
    /\ HandlerFrame

on_modified(v) ==
    /\ HandlerReady(v, "modified")
    /\ events' = [events EXCEPT ![v] = Tail(@)]
    /\ IF Accepts(Head(events[v]))
       THEN enqueue_path_for_ingestion(v, Resolve(Head(events[v]).path))
       ELSE UNCHANGED <<ingest_queue, mpbuf, enq, wpc, cpc, lock>>
    /\ HandlerFrame

\* Mutant: a delete handler that queues the path like a modification.
on_deleted_enqueues(v) ==
    /\ HandlerReady(v, "deleted")
    /\ events' = [events EXCEPT ![v] = Tail(@)]
    /\ enqueue_path_for_ingestion(v, Head(events[v]).path)
    /\ HandlerFrame

\* on_deleted / on_moved only log.
on_deleted(v) ==
    /\ HandlerReady(v, "deleted")
    /\ events' = [events EXCEPT ![v] = Tail(@)]
    /\ UNCHANGED <<ingest_queue, mpbuf, enq, wpc, cpc, lock>>
    /\ HandlerFrame

on_moved(v) ==
    /\ HandlerReady(v, "moved")
    /\ events' = [events EXCEPT ![v] = Tail(@)]
    /\ UNCHANGED <<ingest_queue, mpbuf, enq, wpc, cpc, lock>>
    /\ HandlerFrame

\* with self.wait_cv: self.wait_cv.notify_all()
NotifyStep(v) ==
    /\ wpc[v] = "notify"
    /\ cpc # "crashed"
    /\ lock = NoOwner
    /\ wpc' = [wpc EXCEPT ![v] = "idle"]
    /\ cpc' = Notified(cpc)
    /\ UNCHANGED <<events, ingest_queue, mpbuf, enq, lock>>
    /\ HandlerFrame

\* multiprocessing.Queue feeder thread: one buffered item reaches the pipe.
Feed ==
    /\ mpbuf # <<>>
    /\ ingest_queue' = Append(ingest_queue, Head(mpbuf))
    /\ mpbuf' = Tail(mpbuf)
    /\ UNCHANGED <<events, enq, wpc, cpc, lock>>
    /\ HandlerFrame

\* ------------------------------------------------------- construction
\* Indexer.__init__: the scan runs when the database is empty; every found
\* path goes through enqueue_path_for_ingestion (is_file holds for each).
IndexerInit ==
    /\ mode = "indexer"
    /\ cpc = "start"
    /\ LET found == IF num_notes = 0 THEN find_all_note_paths ELSE <<>>
       IN /\ ingest_queue' = ingest_queue \o found
          /\ enq' = enq \o found
    /\ cpc' = "loop"
    /\ UNCHANGED <<cfgVars, srvVars, fsVars, wpc, mpbuf, lock, ingestVars, store, ctlVars,
                   handed, upserts, failed, sinceSubmit, prevReadAt>>

\* Worker.initialize: the scan runs when enqueue_all is set.
WorkerInitialize ==
    /\ mode = "worker"
    /\ cpc = "start"
    /\ LET found == IF enqueue_all THEN find_all_note_paths ELSE <<>>
       IN /\ mpbuf' = mpbuf \o found
          /\ enq' = enq \o found
    /\ cpc' = "wcheck"
    /\ UNCHANGED <<cfgVars, srvVars, fsVars, wpc, ingest_queue, lock, ingestVars, store, ctlVars,
                   handed, upserts, failed, sinceSubmit, prevReadAt>>

\* --------------------------------------------- Indexer.run_ingestor loop
LoopFrame ==
    UNCHANGED <<cfgVars, srvVars, fsVars, wpc, mpbuf, store, ctlVars, enq, upserts, failed,
                sinceSubmit, prevReadAt>>

\* stop_when_done is "not watch" (index_cmd).
stop_when_done == ~watch

\* Mutant: a loop that never looks at stop_when_done (while True).
LoopTestForever ==
    /\ mode = "indexer"
    /\ cpc = "loop"
    /\ cpc' = "acquire"
    /\ UNCHANGED <<ingest_queue, lock, ingestVars, handed>>
    /\ LoopFrame

\* while self.ingest_queue or not stop_when_done
LoopTest ==
    /\ mode = "indexer"
    /\ cpc = "loop"
    /\ cpc' = IF ingest_queue # <<>> \/ ~stop_when_done THEN "acquire" ELSE "done"
    /\ UNCHANGED <<ingest_queue, lock, ingestVars, handed>>
    /\ LoopFrame

\* with self.wait_cv (first entry, or re-entry after a wait)
Acquire ==
    /\ cpc \in {"acquire", "woken"}
    /\ lock = NoOwner
    /\ lock' = Consumer
    /\ cpc' = "check"
    /\ UNCHANGED <<ingest_queue, ingestVars, handed>>
    /\ LoopFrame

\* Mutant: the batch is collected without waiting for the queue to fill.
WaitForNothing ==
    /\ cpc = "check"
    /\ cpc' = "drain"
    /\ batch' = <<>>
    /\ UNCHANGED <<lock, ingest_queue, texts, embs, idx, handed>>
    /\ LoopFrame

\* wait_for(lambda: bool(self.ingest_queue)): the predicate is evaluated
\* with the lock held; if it fails the thread releases the lock and waits.
WaitFor ==
    /\ cpc = "check"
    /\ IF ingest_queue # <<>>
       THEN /\ cpc' = "drain"
            /\ batch' = <<>>
            /\ UNCHANGED lock
       ELSE /\ cpc' = "waiting"
            /\ lock' = NoOwner
            /\ UNCHANGED batch
    /\ UNCHANGED <<ingest_queue, texts, embs, idx, handed>>
    /\ LoopFrame

\* ----------------------------------------------------------- draining
\* Mutant: the collection loop bounded off by one.
IndexerDrainMoreOffByOne(b) == ingest_queue # <<>> /\ Len(b) <= IngestBatchSize

\* Indexer._do_ingest_batch: while self.ingest_queue and len(batch) < size
IndexerDrainMore(b) == ingest_queue # <<>> /\ Len(b) < IngestBatchSize

\* Worker.default_work: for _ in range(size): get_nowait() / except Empty: break
WorkerDrainMore(b) == Len(b) < IngestBatchSize /\ ingest_queue # <<>>

DrainMore(b) == IF mode = "indexer" THEN IndexerDrainMore(b) ELSE WorkerDrainMore(b)

\* One popleft / get_nowait, or the end of the collection loop and the
\* call of _do_ingest_paths(batch).
DrainStep ==
    /\ cpc = "drain"
    /\ IF DrainMore(batch)
       THEN /\ batch' = Append(batch, Head(ingest_queue))
            /\ handed' = Append(handed, Head(ingest_queue))
            /\ ingest_queue' = Tail(ingest_queue)
            /\ UNCHANGED <<cpc, texts>>
       ELSE /\ cpc' = "read"
            /\ texts' = <<>>
            /\ UNCHANGED <<batch, handed, ingest_queue>>
    /\ UNCHANGED <<lock, embs, idx>>
    /\ LoopFrame

\* ---------------------------------------------------------- ingestion
\* The locals of _do_ingest_batch / _do_ingest_paths end with the call.
EndOfCall ==
    /\ batch' = <<>>
    /\ texts' = <<>>
    /\ embs' = <<>>
    /\ idx' = 0

\* Mutant: a failed batch whose items are put back on the queue.
RaiseRequeue ==
    /\ failed' = TRUE
    /\ ingest_queue' = ingest_queue \o batch
    /\ IF mode = "indexer"
       THEN /\ cpc' = "crashed"
            /\ lock' = NoOwner
            /\ UNCHANGED <<sinceSubmit, ingestVars>>
       ELSE /\ cpc' = "wcheck"
            /\ sinceSubmit' = IF request = "pending" THEN sinceSubmit + 1 ELSE sinceSubmit
            /\ EndOfCall
            /\ UNCHANGED lock

\* An exception leaves _do_ingest_paths. run_ingestor has no handler: the
\* with block releases wait_cv, the exception leaves index_cmd and the
\* process ends where it stands. The worker loop reports the failed batch
\* and goes on (spec.md 7). Nothing is put back on the queue.
Raise ==
    /\ failed' = TRUE
    /\ UNCHANGED ingest_queue
    /\ IF mode = "indexer"
       THEN /\ cpc' = "crashed"
            /\ lock' = NoOwner
            /\ UNCHANGED <<sinceSubmit, ingestVars>>
       ELSE /\ cpc' = "wcheck"
            /\ sinceSubmit' = IF request = "pending" THEN sinceSubmit + 1 ELSE sinceSubmit
            /\ EndOfCall
            /\ UNCHANGED lock

IngestFrame ==
    UNCHANGED <<cfgVars, srvVars, fsVars, wpc, mpbuf, ctlVars, enq, handed>>

\* Mutant: a read loop that skips a file it cannot open and goes on.
ReadStepSkipMissing ==
    /\ cpc = "read"
    /\ IF Len(texts) < Len(batch)
       THEN LET p == FileOf(batch[Len(texts) + 1])
            IN IF fs[p].exists
               THEN /\ texts' = Append(texts, [content |-> fs[p].content, touch |-> lastTouch[p]])
                    /\ UNCHANGED <<cpc, batch>>
               ELSE /\ batch' = SubSeq(batch, 1, Len(texts))
                                    \o SubSeq(batch, Len(texts) + 2, Len(batch))
                    /\ UNCHANGED <<cpc, texts>>
       ELSE /\ cpc' = "encode"
            /\ UNCHANGED <<texts, batch>>
    /\ UNCHANGED <<ingest_queue, lock, failed, sinceSubmit, embs, idx, store, upserts, prevReadAt>>
    /\ IngestFrame

\* with open(path, "r") as f: texts.append(f.read())
ReadStep ==
    /\ cpc = "read"
    /\ IF Len(texts) < Len(batch)
       THEN LET p == FileOf(batch[Len(texts) + 1])
            IN IF fs[p].exists
               THEN /\ texts' = Append(texts, [content |-> fs[p].content, touch |-> lastTouch[p]])
                    /\ UNCHANGED <<cpc, lock, failed, sinceSubmit, ingest_queue, batch, embs, idx>>
               ELSE Raise
       ELSE /\ cpc' = "encode"
            /\ UNCHANGED <<lock, failed, sinceSubmit, ingest_queue, ingestVars>>
    /\ UNCHANGED <<store, upserts, prevReadAt>>
    /\ IngestFrame

\* embs = self.encoder.encode_documents(texts, batch_size=...)
encode_documents(ts) == [i \in 1..Len(ts) |-> Encode(ts[i].content)]

EncodeStep ==
    /\ cpc = "encode"
    /\ embs' = encode_documents(texts)
    /\ idx' = 1
    /\ cpc' = "store"
    /\ UNCHANGED <<batch, texts, lock, store, upserts, prevReadAt, failed, sinceSubmit,
                   ingest_queue>>
    /\ IngestFrame

\* encode_documents raises (spec.md 5: failure surfaces as an error for
\* the whole call): the exception leaves _do_ingest_paths before any store.
EncodeRaise ==
    /\ cpc = "encode"
    /\ Raise
    /\ UNCHANGED <<store, upserts, prevReadAt>>
    /\ IngestFrame

\* Mutant: the modification time taken when the text was read.
StatMTimeAtRead(p) == texts[idx].content

\* path.stat().st_mtime at the store of an item
StatMTime(p) == fs[p].mtime

\* Mutant: the embeddings paired with the items in reverse.
EmbForReversed(i) == embs[Len(embs) + 1 - i]

\* The embedding zip(vault_name_paths, embs) pairs with item i
EmbFor(i) == embs[i]

\* Return of _do_ingest_paths / _do_ingest_batch.
IngestReturn ==
    /\ EndOfCall
    /\ IF mode = "indexer"
       THEN /\ cpc' = "loop"
            /\ lock' = NoOwner
            /\ UNCHANGED sinceSubmit
       ELSE /\ cpc' = "wcheck"
            /\ sinceSubmit' = IF request = "pending" THEN sinceSubmit + 1 ELSE sinceSubmit
            /\ UNCHANGED lock

\* for (vault_name, path), emb in zip(...): store_note(rel, vault, stat, emb)
\* relative_to or stat may raise; the record's key is the relative path.
StoreStep ==
    /\ cpc = "store"
    /\ IF idx <= Len(batch)
       THEN LET p == FileOf(batch[idx])
            IN IF UnderRoot(batch[idx]) /\ fs[p].exists
               THEN /\ store' = [store EXCEPT ![p] =
                                   [present |-> TRUE, mtime |-> StatMTime(p), emb |-> EmbFor(idx)]]
                    /\ upserts' = [upserts EXCEPT ![p] = @ + 1]
                    /\ prevReadAt' = [prevReadAt EXCEPT ![p] = texts[idx].touch]
                    /\ idx' = idx + 1
                    /\ UNCHANGED <<cpc, lock, failed, sinceSubmit, ingest_queue, batch, texts, embs>>
               ELSE /\ Raise
                    /\ UNCHANGED <<store, upserts, prevReadAt>>
       ELSE /\ IngestReturn
            /\ UNCHANGED <<store, upserts, prevReadAt, failed, ingest_queue>>
    /\ IngestFrame

\* ------------------------------------------------ worker loop, controller
\* Worker.default_work_available: not self.ingest_queue.empty()
default_work_available == ingest_queue # <<>>

\* Worker.process_message: the paths the searcher finds in the database.
process_message == {p \in Paths : store[p].present}

WorkerFrame ==
    UNCHANGED <<cfgVars, srvVars, fsVars, wpc, ingest_queue, mpbuf, lock, texts, embs, idx, store,
                enq, handed, upserts, failed, prevReadAt>>

\* Mutant: a wake that prefers ingestion work to a pending request.
WorkerWakeIngestFirst ==
    /\ mode = "worker"
    /\ cpc = "wcheck"
    /\ cpc' = IF shutdown THEN "exited"
              ELSE IF default_work_available THEN "drain"
              ELSE IF request = "pending" THEN "service"
              ELSE "wwait"
    /\ batch' = <<>>
    /\ UNCHANGED <<ctlVars, sinceSubmit>>
    /\ WorkerFrame

\* One wake of the control loop: shutdown, else a pending request, else a
\* batch if work is available, else block until notified.
WorkerWake ==
    /\ mode = "worker"
    /\ cpc = "wcheck"
    /\ cpc' = IF shutdown THEN "exited"
              ELSE IF request = "pending" THEN "service"
              ELSE IF default_work_available THEN "drain"
              ELSE "wwait"
    /\ batch' = <<>>
    /\ UNCHANGED <<ctlVars, sinceSubmit>>
    /\ WorkerFrame

\* Mutant: a wake that, having answered the request, goes on to a batch.
ServiceThenDrain ==
    /\ cpc = "service"
    /\ response' = process_message
    /\ request' = "answered"
    /\ sinceSubmit' = 0
    /\ cpc' = IF default_work_available THEN "drain" ELSE "wcheck"
    /\ UNCHANGED <<batch, shutdown, ctl, nreq>>
    /\ WorkerFrame

\* The request is serviced and its response deposited in the slot.
Service ==
    /\ cpc = "service"
    /\ response' = process_message
    /\ request' = "answered"
    /\ sinceSubmit' = 0
    /\ cpc' = "wcheck"
    /\ UNCHANGED <<batch, shutdown, ctl, nreq>>
    /\ WorkerFrame

\* RequestChannel.submit: occupy the slot and wake the loop. One request is
\* outstanding at a time: the caller has taken the previous response.
Submit ==
    /\ mode = "worker"
    /\ ctl = "running"
    /\ cpc # "start"
    /\ request \in {"none", "answered"}
    /\ nreq < MaxRequests
    /\ request' = "pending"
    /\ nreq' = nreq + 1
    /\ sinceSubmit' = 0
    /\ cpc' = Notified(cpc)
    /\ UNCHANGED <<batch, shutdown, ctl, response>>
    /\ WorkerFrame

\* stop(): signal shutdown, wake the loop, then join it.
Stop ==
    /\ mode = "worker"
    /\ ctl = "running"
    /\ cpc # "start"
    /\ shutdown' = TRUE
    /\ ctl' = "joining"
    /\ cpc' = Notified(cpc)
    /\ UNCHANGED <<batch, request, nreq, response, sinceSubmit>>
    /\ WorkerFrame

\* Mutant: a stop that does not join the loop thread.
JoinNoWait ==
    /\ ctl = "joining"
    /\ ctl' = "stopped"
    /\ request' = IF request = "pending" THEN "failed" ELSE request
    /\ events' = [v \in Vaults |-> <<>>]
    /\ UNCHANGED <<cfgVars, srvVars, fs, clock, lastTouch, lastMoveOnto, lastModify, wpc, ingest_queue, mpbuf, lock,
                   cpc, ingestVars, store, shutdown, nreq, response, enq, handed, upserts,
                   failed, sinceSubmit, prevReadAt>>

\* The join returns once the loop thread has exited; the watchers are
\* stopped and a request still pending is dropped with an error.
Join ==
    /\ ctl = "joining"
    /\ cpc = "exited"
    /\ ctl' = "stopped"
    /\ request' = IF request = "pending" THEN "failed" ELSE request
    /\ events' = [v \in Vaults |-> <<>>]
    /\ UNCHANGED <<cfgVars, srvVars, fs, clock, lastTouch, lastMoveOnto, lastModify, wpc, ingest_queue, mpbuf, lock,
                   cpc, ingestVars, store, shutdown, nreq, response, enq, handed, upserts,
                   failed, sinceSubmit, prevReadAt>>

\* ------------------------------------------------------------ MCP server
\* Tool calls a client can send: the tool name and the arguments object.
ToolNames == {"search-notes", "read-note"}
ToolArguments == {ArgNone, Dict({}), Dict({<<"limit", "5">>}),
                  Dict({<<"query", "">>}), Dict({<<"query", "notes">>})}

ValidationErrors == {"Unknown tool", "Missing arguments", "Missing query"}

\* Mutant: a handler that passes whatever arguments.get("query") gave on.
ToolOutcomeNoQueryCheck(name, arguments) ==
    IF name # "search-notes" THEN "Unknown tool"
    ELSE IF FalsyArgs(arguments) THEN "Missing arguments"
    ELSE IF \E p \in process_message : ~fs[p].exists THEN "FileNotFoundError"
    ELSE "ok"

\* handle_call_tool: the checks in order, then searcher.search(query) and
\* path.read_text() of every path found.
ToolOutcome(name, arguments) ==
    IF name # "search-notes" THEN "Unknown tool"
    ELSE IF FalsyArgs(arguments) THEN "Missing arguments"
    ELSE IF Falsy(DictGet(arguments, "query")) THEN "Missing query"
    ELSE IF \E p \in process_message : ~fs[p].exists THEN "FileNotFoundError"
    ELSE "ok"

handle_call_tool(name, arguments) ==
    LET outcome == ToolOutcome(name, arguments)
    IN /\ call' = [outcome |-> outcome,
                   searched |-> outcome \notin ValidationErrors,
                   result |-> IF outcome = "ok" THEN process_message ELSE {},
                   afterError |-> call.outcome \in ValidationErrors]
       /\ UNCHANGED <<cfgVars, fsVars, wpc, ingest_queue, mpbuf, lock, cpc, ingestVars, store,
                      ctlVars, enq, handed, upserts, failed, sinceSubmit, prevReadAt, launch>>

CallTool == \E name \in ToolNames, arguments \in ToolArguments : handle_call_tool(name, arguments)

\* ------------------------------------------------- detached launcher
\* A path is the sequence of its components; Path.name is the final one
\* ("" for the root).
Components == {"notes", "work"}
DirPaths == UNION {[1..k -> Components] : k \in 0..MaxPathLen}
PathName(p) == IF p = <<>> THEN "" ELSE p[Len(p)]

\* The vaults dict of the parent, in insertion order: items of a name and
\* a root; is_dir says whether the root is an existing directory.
VaultItems == [name : Components \cup {""}, path : DirPaths, is_dir : BOOLEAN]
VaultDicts == {<<>>} \cup {<<i>> : i \in VaultItems}
                     \cup {d \in VaultItems \X VaultItems : d[1].name # d[2].name}
Databases == [path : {<<"work">>, <<"work", "notes">>}, is_dir : BOOLEAN]

\* dict equality: the set of (name, root) pairs
DictOf(vs) == {<<vs[i].name, vs[i].path>> : i \in 1..Len(vs)}

\* assert all(vault_path.name == vault_name for ... in vaults.items())
LaunchPrecondition(vs) == \A i \in 1..Len(vs) : PathName(vs[i].path) = vs[i].name

\* Mutant: the vault options built from the names instead of the roots.
VaultOptionsFromNames(vs) ==
    [i \in 1..Len(vs) |-> [opt |-> "--vault", val |-> <<vs[i].name>>, is_dir |-> vs[i].is_dir]]

\* itertools.chain.from_iterable(["--vault", vault_path] for vault_path in vaults.values())
VaultOptions(vs) ==
    [i \in 1..Len(vs) |-> [opt |-> "--vault", val |-> vs[i].path, is_dir |-> vs[i].is_dir]]

\* args after sys.executable, sys.argv[0], "index": each option with its value
LaunchArgs(vs, db) ==
    <<[opt |-> "--database", val |-> db.path, is_dir |-> db.is_dir]>>
        \o VaultOptions(vs)
        \o <<[opt |-> "--watch", val |-> <<>>, is_dir |-> FALSE]>>

\* run_background_indexer: the assert, then Popen(args); popen is a local,
\* nothing is returned and nothing waits for the child.
RunBackgroundIndexer(vs, db) ==
    /\ launch.parent = "none"
    /\ launch' = IF LaunchPrecondition(vs)
                 THEN [launch EXCEPT !.vaults = vs, !.database = db, !.parent = "returned",
                                     !.argv = LaunchArgs(vs, db), !.returned = PyNone,
                                     !.child.status = "spawned"]
                 ELSE [launch EXCEPT !.vaults = vs, !.database = db,
                                     !.parent = "AssertionError"]
    /\ UNCHANGED <<cfgVars, fsVars, wpc, ingest_queue, mpbuf, lock, cpc, ingestVars, store,
                   ctlVars, enq, handed, upserts, failed, sinceSubmit, prevReadAt, call>>

\* click on the child's command line: --vault is required and multiple,
\* each value an existing directory; --database is required and no
\* directory; --watch is a flag.
OptionValues(argv, o) == SelectSeq(argv, LAMBDA a : a.opt = o)

ClickAccepts(argv) ==
    /\ OptionValues(argv, "--vault") # <<>>
    /\ \A i \in 1..Len(argv) : argv[i].opt = "--vault" => argv[i].is_dir
    /\ OptionValues(argv, "--database") # <<>>
    /\ \A i \in 1..Len(argv) : argv[i].opt = "--database" => ~argv[i].is_dir

\* {vault_path.name: vault_path for vault_path in vault_paths}: of two
\* roots with one name the later one stays.
ChildVaults(argv) ==
    LET ps == OptionValues(argv, "--vault")
    IN {<<PathName(ps[i].val), ps[i].val>> :
            i \in {k \in 1..Len(ps) :
                      \A m \in (k + 1)..Len(ps) : PathName(ps[m].val) # PathName(ps[k].val)}}

\* index_cmd in the child: the options parsed, the Indexer configured.
ChildIndexCmd ==
    /\ launch.child.status = "spawned"
    /\ launch' = IF ClickAccepts(launch.argv)
                 THEN LET dbs == OptionValues(launch.argv, "--database")
                      IN [launch EXCEPT !.child =
                            [status |-> "running",
                             vaults |-> ChildVaults(launch.argv),
                             database |-> dbs[Len(dbs)].val,
                             watch |-> OptionValues(launch.argv, "--watch") # <<>>]]
                 ELSE [launch EXCEPT !.child.status = "UsageError"]
    /\ UNCHANGED <<cfgVars, fsVars, wpc, ingest_queue, mpbuf, lock, cpc, ingestVars, store,
                   ctlVars, enq, handed, upserts, failed, sinceSubmit, prevReadAt, call>>

Launch ==
    /\ launch.parent = "none"
    /\ \E vs \in VaultDicts, db \in Databases : RunBackgroundIndexer(vs, db)

NextLaunch == Launch \/ ChildIndexCmd

\* --------------------------------------------------------------- Next
WatcherStep ==
    \E v \in Vaults :
        \/ on_created(v)
        \/ on_modified(v)
        \/ on_deleted(v)
        \/ on_moved(v)

NotifyAny == \E v \in Vaults : NotifyStep(v)

IngestStep ==
    \/ DrainStep
    \/ ReadStep
    \/ EncodeStep
    \/ EncodeRaise
    \/ StoreStep

IndexerLoop ==
    \/ IndexerInit
    \/ LoopTest
    \/ Acquire
    \/ WaitFor

WorkerLoop ==
    \/ WorkerInitialize
    \/ WorkerWake
    \/ Service

\* The in-process generation: index_cmd running an Indexer.
NextIndexer ==
    \/ FsStep
    \/ WatcherStep
    \/ NotifyAny
    \/ IndexerLoop
    \/ IngestStep

\* The cross-process generation: a Worker under its controller.
NextWorker ==
    \/ FsStep
    \/ WatcherStep
    \/ Feed
    \/ WorkerLoop
    \/ IngestStep
    \/ Submit
    \/ Stop
    \/ Join

\* mcp_cmd: the server answers tool calls while the background indexer
\* (index --watch on the same database) runs beside it.
NextMcp == NextIndexer \/ CallTool

Next == NextIndexer \/ NextWorker

Init == InitOf({"indexer", "worker"})

Spec == Init /\ [][Next]_vars

SpecIndexer == InitOf({"indexer"}) /\ [][NextIndexer]_vars

SpecWorker == InitOf({"worker"}) /\ [][NextWorker]_vars

\* index_cmd with vault roots as given on the command line: canonical, or
\* relative or through a symlink.
InitAnyRoot == InitCfg({"indexer"}, BOOLEAN)

SpecAnyRoot == InitAnyRoot /\ [][NextIndexer]_vars

InitMcp == InitOf({"indexer"}) /\ watch = TRUE

SpecMcp == InitMcp /\ [][NextMcp]_vars

\* run_server(background_indexer=True) up to the start of the child, on
\* vaults without a note and an empty store (they play no part in it).
InitLaunch == InitMcp /\ find_all_note_paths = <<>> /\ num_notes = 0

SpecLaunch == InitLaunch /\ [][NextLaunch]_vars

\* The loop thread, the Observer threads, the feeder thread and the joining
\* controller keep running; the filesystem and the callers of submit and
\* stop are free to do nothing.
Fairness ==
    /\ WF_vars(IndexerLoop)
    /\ WF_vars(WorkerLoop)
    /\ WF_vars(IngestStep)
    /\ WF_vars(WatcherStep)
    /\ WF_vars(NotifyAny)
    /\ WF_vars(Feed)
    /\ WF_vars(Join)

FairSpecIndexer == SpecIndexer /\ Fairness

\* The worker's loop thread alone: nothing is assumed of the Observer
\* threads, the feeder thread or the controller.
LoopFairness ==
    /\ WF_vars(WorkerLoop)
    /\ WF_vars(IngestStep)

FairSpecWorker == SpecWorker /\ LoopFairness

\* ================================================================ claims
MaxEnq == Cardinality(Paths) + MaxFsOps

RECURSIVE BagOfSeq(_)
BagOfSeq(sq) == IF sq = <<>> THEN EmptyBag ELSE SetToBag({Head(sq)}) (+) BagOfSeq(Tail(sq))

InIngest == cpc \in {"drain", "read", "encode", "store"}

\* C1: every batch collected by Indexer._do_ingest_batch or
\* Worker.default_work holds at most ingest_batch_size items, and the
\* batches drained so far, concatenated in drain order, are a prefix of the
\* accepted enqueues.
C1_BatchBoundedFifo ==
    /\ Len(batch) <= IngestBatchSize
    /\ IsPrefix(handed, enq)

\* A second batch is being ingested after a full first one.
C1_Witness ==
    /\ cpc = "read"
    /\ batch # <<>>
    /\ Len(handed) > IngestBatchSize

\* C2: the items still queued plus the items handed to ingest are, as
\* multisets, the accepted enqueues; with no failed batch, once the loop is
\* between batches every path has been upserted as often as it was drained.
C2_ConsumedExactlyOnce ==
    /\ BagOfSeq(enq) = BagOfSeq(ingest_queue) (+) BagOfSeq(mpbuf) (+) BagOfSeq(handed)
    /\ (~failed /\ ~InIngest) => \A p \in Paths : upserts[p] = Count(p, handed)

\* a.md, b.md, a.md enqueued, drained as [a, b] then [a], a.md upserted twice.
C2_Witness ==
    /\ enq = <<1, 2, 1>>
    /\ handed = enq
    /\ ~InIngest
    /\ upserts[1] = 2
    /\ upserts[2] = 1

\* C3: in the in-process Indexer, whenever the loop thread is blocked in
\* wait_for while an item is in the queue, it eventually drains that item.
C3_NoLostWakeup ==
    \A n \in 0..MaxEnq :
        (cpc = "waiting" /\ ingest_queue # <<>> /\ Len(handed) = n) ~> (Len(handed) > n)

\* The loop thread is blocked and a watcher has appended an item.
C3_Witness == cpc = "waiting" /\ ingest_queue # <<>>

\* C4: a watcher that has appended its item never has to wait for wait_cv
\* while the loop thread is ingesting a batch.
C4_EnqueueNeverBlocks ==
    \A v \in Vaults : ~(wpc[v] = "notify" /\ lock = Consumer /\ cpc \in IngestPcs)

\* C5: while a search request is pending at most one ingest call completes
\* (the one in flight at submit), and unless stop() intervenes the request
\* is answered.
C5_RequestFirst ==
    /\ [](request = "pending" => sinceSubmit <= 1)
    /\ ((request = "pending" /\ ~shutdown) ~> (request = "answered" \/ shutdown))

\* The request is being serviced right after the batch that was in flight
\* at submit, with items still queued.
C5_Witness == cpc = "service" /\ sinceSubmit = 1 /\ ingest_queue # <<>>

\* C6: stop() returns only after the loop thread has exited, and a
\* signalled shutdown never cuts an ingest or a search call short: from
\* inside a call the loop thread only moves on within it or back to the
\* top of the loop.
C6_StopWaitsForBatch ==
    /\ [](ctl = "stopped" => cpc = "exited")
    /\ [][(shutdown /\ cpc \in IngestPcs \cup {"drain", "service"})
            => cpc' \in IngestPcs \cup {"drain", "service", "wcheck"}]_vars

\* stop() has been called and waits while a batch is being ingested.
C6_Witness == ctl = "joining" /\ cpc \in IngestPcs /\ batch # <<>>

\* C7: right after construction the accepted enqueues are the full scan
\* if the store was empty, and nothing otherwise.
C7_ColdBootstrap ==
    (cpc \in {"loop", "wcheck"} /\ clock = 0 /\ handed = <<>>)
        => enq = (IF num_notes = 0 THEN find_all_note_paths ELSE <<>>)

\* C8: handling a delete or a move event changes neither the store nor the
\* ingest queue.
C8_DeleteMoveLogOnly ==
    [][(\E v \in Vaults : on_deleted(v) \/ on_moved(v))
         => UNCHANGED <<store, ingest_queue, mpbuf, enq>>]_vars

\* An ingested note is gone from its path, the event has been handled, and
\* the store still holds its record: a search still returns the path.
C8_Witness ==
    /\ watch
    /\ \E p \in Paths :
        /\ upserts[p] > 0
        /\ ~fs[p].exists
        /\ events[VaultOf(p)] = <<>>
        /\ store[p].present
        /\ p \in process_message

\* C9: an upsert of a path that was ingested before and has not been
\* touched since the text of that ingestion was read leaves its record as
\* it was.
C9_Idempotent ==
    [][\A p \in Paths :
          (upserts'[p] = upserts[p] + 1 /\ upserts[p] >= 1 /\ lastTouch[p] = prevReadAt[p])
              => store'[p] = store[p]]_vars

\* The second store of a note that is unchanged since its first ingestion
\* is about to happen.
C9_Witness ==
    /\ cpc = "store"
    /\ idx <= Len(batch)
    /\ fs[batch[idx]].exists
    /\ upserts[batch[idx]] >= 1
    /\ lastTouch[batch[idx]] = prevReadAt[batch[idx]]

\* C10 as stated: a record written by ingestion never carries a modified
\* time earlier than the time of the content its embedding was made from.
C10_MTimeNotEarlier ==
    \A p \in Paths :
        (store[p].present /\ upserts[p] > 0) => store[p].mtime >= store[p].emb[2]

\* C10 amended: the stored modified time is the one the path has at the
\* store step, after the read; it is not earlier than the time of the
\* content read unless a move replaced the path after the read.
C10_MTimeSampledAfterRead ==
    [][\A p \in Paths :
          upserts'[p] = upserts[p] + 1
              => /\ store'[p].mtime = fs[p].mtime
                 /\ store'[p].emb = Encode(texts[idx].content)
                 /\ lastMoveOnto[p] <= texts[idx].touch
                        => store'[p].mtime >= texts[idx].content]_vars

\* A record whose modified time is later than its content: the note was
\* written between the read and the stat.
C10_Witness ==
    \E p \in Paths :
        /\ upserts[p] > 0
        /\ store[p].present
        /\ store[p].mtime > store[p].emb[2]

\* C11: a one-shot run (stop_when_done, no watchers) ends: run_ingestor
\* returns or an exception of a batch leaves it. On return the queue is
\* empty and every enqueued item has been drained into a batch; a run that
\* found nothing to enqueue returns without any ingest.
C11_OneShotTerminates ==
    /\ (stop_when_done ~> cpc \in {"done", "crashed"})
    /\ [](cpc = "done" => (ingest_queue = <<>> /\ handed = enq))
    /\ [](cpc = "done" /\ ~failed => \A p \in Paths : upserts[p] = Count(p, enq))
    /\ []((stop_when_done /\ cpc # "start" /\ enq = <<>>)
            => (~InIngest /\ \A p \in Paths : upserts[p] = 0))

\* The one-shot run has returned after ingesting the scan of both notes.
C11_Witness ==
    /\ stop_when_done
    /\ cpc = "done"
    /\ handed = <<1, 2>>
    /\ upserts[1] = 1
    /\ upserts[2] = 1

\* The calls C12 speaks of: an unknown tool name, missing (or empty)
\* arguments, a missing or empty query.
InvalidCall(name, arguments) ==
    \/ name # "search-notes"
    \/ arguments.none
    \/ arguments.items = {}
    \/ ~(\E kv \in arguments.items : kv[1] = "query" /\ kv[2] # "")

\* C12: a tool call that is invalid fails with a validation error, runs no
\* search and leaves queue and store as they are; a valid call runs the
\* search on the store as it is now, whatever the calls before it were.
C12_InvalidCallFailsAlone ==
    [][\A name \in ToolNames, arguments \in ToolArguments :
          (call' # call /\ handle_call_tool(name, arguments)) =>
             /\ UNCHANGED <<ingest_queue, mpbuf, store, enq, handed, upserts, batch>>
             /\ InvalidCall(name, arguments)
                    => /\ call'.outcome \in ValidationErrors
                       /\ ~call'.searched
                       /\ call'.result = {}
             /\ ~InvalidCall(name, arguments)
                    => /\ call'.searched
                       /\ call'.outcome \notin ValidationErrors
                       /\ call'.outcome = "ok" => call'.result = process_message]_vars

\* A valid call right after a failed one is served and returns a note.
C12_Witness ==
    /\ call.afterError
    /\ call.outcome = "ok"
    /\ call.result # {}
    /\ ingest_queue # <<>>

\* C13: a wake of the worker loop either services one request or drains and
\* ingests one batch: from the service of a request the loop thread goes
\* back to the top of the loop, from a batch likewise; a response is
\* deposited only in a service, the store and the embeddings change only
\* inside an ingest call.
C13_OneKindPerWake ==
    [][/\ cpc = "service" => cpc' \in {"service", "wcheck"}
       /\ cpc \in IngestPcs \cup {"drain"} => cpc' \in IngestPcs \cup {"drain", "wcheck"}
       /\ cpc = "wcheck" => cpc' \in {"wcheck", "service", "drain", "wwait", "exited"}
       /\ (request = "pending" /\ request' = "answered") => cpc = "service"
       /\ (store' # store \/ embs' # embs \/ handed' # handed) => cpc \in IngestPcs \cup {"drain"}]_vars

\* A batch is being drained in a wake after the one that answered a request.
C13_Witness ==
    /\ cpc = "drain"
    /\ request = "answered"
    /\ batch # <<>>

\* The next read of the batch fails: the file is gone.
ReadFails ==
    /\ cpc = "read"
    /\ Len(texts) < Len(batch)
    /\ ~IsFile(FileOf(batch[Len(texts) + 1]))

\* C14: when the read of a file of the batch fails, the loop thread leaves
\* the ingest call with a failed batch: no encoder call, no upsert, also
\* for the items read before; the encoder is entered and an upsert made
\* only with every text of the batch read.
C14_AllOrNothingRead ==
    [][/\ (ReadFails /\ <<cpc, batch, texts>>' # <<cpc, batch, texts>>)
            => /\ cpc' \in {"crashed", "wcheck"}
               /\ failed'
               /\ UNCHANGED <<store, upserts, embs>>
       /\ (cpc = "read" /\ cpc' = "encode") => Len(texts) = Len(batch)
       /\ upserts' # upserts => (Len(texts) = Len(batch) /\ Len(embs) = Len(batch))]_vars

\* The batch [a.md, b.md] failed at b.md after a.md had been read: nothing
\* was encoded or stored.
C14_Witness ==
    /\ cpc = "crashed"
    /\ Len(batch) > Len(texts)
    /\ Len(texts) >= 1
    /\ ~IsFile(FileOf(batch[Len(texts) + 1]))
    /\ embs = <<>>
    /\ \A p \in Paths : upserts[p] = 0

\* C15: once a batch has failed, the accepted enqueues are still the
\* drained items followed by the queued ones, in order (nothing was put
\* back, nothing queued was moved), and no path has been upserted more
\* often than it was drained (no retry).
C15_FailedBatchNotRequeued ==
    failed => /\ enq = handed \o ingest_queue \o mpbuf
              /\ \A p \in Paths : upserts[p] <= Count(p, handed)

\* A batch has failed while an item enqueued behind it is still queued.
C15_Witness ==
    /\ failed
    /\ cpc = "crashed"
    /\ batch # <<>>
    /\ ingest_queue # <<>>

\* C16: in continuous-watch mode the ingestion loop is still running after
\* a batch has failed.
C16_LoopSurvivesFailure ==
    (watch /\ failed) => cpc # "crashed"

\* C17: with no initial scan (every item comes from a watcher's put and
\* notify_all), the worker loop is never blocked while an item is ready in
\* the queue.
C17_WakeSeesItem ==
    (~enqueue_all /\ cpc = "wwait") => ingest_queue = <<>>

C20_SingleWriter ==
    [][/\ (store' # store \/ upserts' # upserts \/ embs' # embs)
            => (cpc \in IngestPcs /\ UNCHANGED <<events, wpc>>)
       /\ (\E v \in Vaults : events[v] # <<>> /\ events'[v] = Tail(events[v]))
            => UNCHANGED <<store, upserts, embs, texts>>
       /\ wpc' # wpc => UNCHANGED <<store, upserts, embs, texts>>]_vars

\* The loop thread has stored one item of its batch while a watcher is in
\* the middle of its callback.
C20_Witness ==
    /\ cpc = "store"
    /\ idx > 1
    /\ \E v \in Vaults : wpc[v] = "notify"

\* The vault maps the child's command line can carry: at least one vault,
\* every root an existing directory, the database path no directory.
Launchable(l) ==
    /\ l.vaults # <<>>
    /\ \A i \in 1..Len(l.vaults) : l.vaults[i].is_dir
    /\ ~l.database.is_dir

C22_KeyComputable ==
    (cpc = "store" /\ idx <= Len(batch)) => UnderRoot(batch[idx])

\* The file's last change was a write in place at filesystem step c,
\* reported by its watcher as a modify event, and the file is as that
\* write left it.
ModifiedLast(p, c) ==
    /\ watch
    /\ fs[p].exists
    /\ lastModify[p] = Stamp(c)
    /\ lastTouch[p] = Stamp(c)

\* The queue is drained and the record holds the embedding of the file's
\* content and the file's modification time.
Fresh(p) ==
    /\ ingest_queue = <<>>
    /\ ~InIngest
    /\ store[p].present
    /\ store[p].emb = Encode(fs[p].content)
    /\ store[p].mtime = fs[p].mtime

\* C23: in continuous-watch mode a note whose last change is a write in
\* place, and which stays as that write left it, eventually has a record
\* with the embedding of that content and that modification time, with the
\* queue drained.
C23_EventualFreshness ==
    \A p \in Paths, c \in 1..MaxFsOps :
        ModifiedLast(p, c) ~> (Fresh(p) \/ ~ModifiedLast(p, c))

\* The same, except where a batch raised: the exception ended run_ingestor
\* and with it the process (C16).
C23_FreshUnlessBatchFailed ==
    \A p \in Paths, c \in 1..MaxFsOps :
        ModifiedLast(p, c) ~> (Fresh(p) \/ ~ModifiedLast(p, c) \/ cpc = "crashed")

====
